---- MODULE Spec2Model ----
(***************************************************************************)
(* Model of the books example application of django-model-populator:      *)
(* the Author, Publisher and Book tables declared in books/models.py with *)
(* their uniqueness, NOT NULL, foreign-key and cascade constraints, the    *)
(* operations the test suite of books/tests.py drives against them, and   *)
(* the populate management command the tests invoke.                      *)
(***************************************************************************)
EXTENDS Integers, FiniteSets, Sequences, TLC

\* ---------------------------------------------------------------- bounds
MaxAuthorName    == 2   \* distinct values of Author.name
MaxPublisherName == 2   \* distinct values of Publisher.name
MaxIsbn  == 2      \* distinct values of Book.isbn
MaxTitle == 1      \* distinct values of Book.title
MaxClock == 2      \* last instant of the clock behind auto_now / auto_now_add
MaxCreated == 4    \* largest value engine._OBJECT_CREATED_COUNT may reach per model

\* --------------------------------------------------- program constants
NumArg == 5        \* "--num", "5" of call_command("populate", "books", ...)

AuthorNames    == 1..MaxAuthorName
PublisherNames == 1..MaxPublisherName
Isbns  == 1..MaxIsbn
Titles == 1..MaxTitle

NoRef == 0         \* Python None in the place of a related instance

\* primary keys: a table holds at most as many rows as its unique column has
\* values
AuthorIds    == 1..MaxAuthorName
PublisherIds == 1..MaxPublisherName
BookIds      == 1..MaxIsbn

\* what a caller may pass as author= / publisher=: None, or an instance whose
\* row is stored or has been deleted
AuthorRefs    == {NoRef} \cup AuthorIds
PublisherRefs == {NoRef} \cup PublisherIds

ModelNames == {"Author", "Publisher", "Book"}

VARIABLES
    authors,       \* rows of the Author table: [id, name]
    publishers,    \* rows of the Publisher table: [id, name]
    books,         \* rows of the Book table
    now,           \* the clock read by auto_now_add / auto_now
    last,          \* the last call made and how it ended
    pop,           \* progress of the populate command
    createdCount   \* engine._OBJECT_CREATED_COUNT

vars == <<authors, publishers, books, now, last, pop, createdCount>>

\* ------------------------------------------------------------- helpers
Ids(table) == {r.id : r \in table}

\* the AutoField primary key of a new row: a key no stored row has
FreshId(table) == CHOOSE i \in 1..(Cardinality(table) + 1) : i \notin Ids(table)

\* what a caller sees of a call: the operation, "ok" or the exception raised,
\* the unique column value it passed (name or isbn) or, for a delete, the
\* number of Book rows delete() reports deleted, and the rows a query returned
Call(op, result, key, rows) ==
    [op |-> op, result |-> result, key |-> key, rows |-> rows]

NoCall == Call("none", "ok", 0, <<>>)

\* ------------------------------------------------- constraints of models.py
\* Author.name declared without unique=True
AuthorNameNotUnique(name, self) == TRUE

\* Author.name = CharField(unique=True); the row being updated is excluded
AuthorNameUnique(name, self) ==
    \A a \in authors : a.id # self => a.name # name

\* Publisher.name = CharField(unique=True)
PublisherNameUnique(name, self) ==
    \A p \in publishers : p.id # self => p.name # name

\* Book.isbn declared without unique=True
IsbnNotUnique(isbn, self) == TRUE

\* Book.isbn = CharField(unique=True)
IsbnUnique(isbn, self) ==
    \A b \in books : b.id # self => b.isbn # isbn

\* Meta.unique_together = ['title', 'isbn', 'publisher', 'author']
UniqueTogether(title, isbn, publisher, author, self) ==
    \A b \in books : b.id # self =>
        <<b.title, b.isbn, b.publisher, b.author>> # <<title, isbn, publisher, author>>

\* ForeignKey('Author', null=True)
AuthorNullable(author) == TRUE

\* ForeignKey('Author') without null=True: the column is NOT NULL
AuthorNotNull(author) == author # NoRef

\* ForeignKey('Publisher') without null=True
PublisherNotNull(publisher) == publisher # NoRef

\* ForeignKey('Author'): the referenced row must exist
AuthorRefExists(author) == author \in Ids(authors)

\* ForeignKey('Publisher'): the referenced row must exist
PublisherRefExists(publisher) == publisher \in Ids(publishers)

\* the outcome of writing a Book row with these column values
BookWriteResult(title, isbn, author, publisher, self) ==
    IF ~AuthorNotNull(author) \/ ~PublisherNotNull(publisher)
    THEN "IntegrityError:notnull"
    ELSE IF ~AuthorRefExists(author) \/ ~PublisherRefExists(publisher)
    THEN "IntegrityError:fk"
    ELSE IF ~IsbnUnique(isbn, self) \/ ~UniqueTogether(title, isbn, publisher, author, self)
    THEN "IntegrityError:unique"
    ELSE "ok"

\* created_at = DateTimeField(auto_now_add=True): set when the row is added
CreatedAtOnAdd == now

\* created_at declared with auto_now=True
CreatedAtRefreshed(b) == now

\* created_at on a later save: the stored value is written back
CreatedAtOnUpdate(b) == b.created_at

\* updated_at = DateTimeField(auto_now=True): set on every save
UpdatedAtOnSave == now

\* author.books resolved through the publisher column
AuthorBooksByPublisher(aid) == {b \in books : b.publisher = aid}

\* related_name='books' on Book.author: the reverse manager author.books
AuthorBooks(aid) == {b \in books : b.author = aid}

\* related_name='books' on Book.publisher: publisher.books
PublisherBooks(pid) == {b \in books : b.publisher = pid}

\* on_delete=models.DO_NOTHING on Book.author
CascadeOfAuthorNothing(aid) == {}

\* on_delete=models.CASCADE on Book.author: the rows deleted with an Author
CascadeOfAuthor(aid) == {b \in books : b.author = aid}

\* the cascade of a Publisher taking every Book row
CascadeOfPublisherAll(pid) == books

\* on_delete=models.CASCADE on Book.publisher
CascadeOfPublisher(pid) == {b \in books : b.publisher = pid}

\* Meta.ordering = ['-created_at']: the orders an unfiltered query may return
\* (rows with equal created_at come in either order)
RECURSIVE OrderedBooks(_)
OrderedBooks(rows) ==
    IF rows = {} THEN {<<>>}
    ELSE UNION {{<<b>> \o s : s \in OrderedBooks(rows \ {b})} :
                b \in {x \in rows : \A y \in rows : x.created_at >= y.created_at}}

\* ------------------------------------------------------------------ Init
NotPopulating ==
    [pc |-> "idle", k |-> 0, i |-> 0, num |-> 0, fromEmpty |-> FALSE,
     made |-> [m \in ModelNames |-> 0]]

Init ==
    /\ authors = {}
    /\ publishers = {}
    /\ books = {}
    /\ now = 0
    /\ last = NoCall
    /\ pop = NotPopulating
    /\ createdCount = [m \in ModelNames |-> 0]

\* execution is single-threaded: no other call runs inside call_command
Idle == pop.pc # "run"

\* time passes between two calls
Tick ==
    /\ Idle
    /\ now < MaxClock
    /\ now' = now + 1
    /\ last' = Call("Tick", "ok", 0, <<>>)
    /\ UNCHANGED <<authors, publishers, books, pop, createdCount>>

\* --------------------------------------------------------------- Author
\* Author.objects.create(name=...)
CreateAuthor(name) ==
    /\ Idle
    /\ IF AuthorNameUnique(name, 0)
       THEN /\ authors' = authors \cup {[id |-> FreshId(authors), name |-> name]}
            /\ last' = Call("CreateAuthor", "ok", name, <<>>)
       ELSE /\ authors' = authors
            /\ last' = Call("CreateAuthor", "IntegrityError:unique", name, <<>>)
    /\ UNCHANGED <<publishers, books, now, pop, createdCount>>

\* author.name = ...; author.save()
UpdateAuthor(aid, name) ==
    /\ Idle
    /\ aid \in Ids(authors)
    /\ IF AuthorNameUnique(name, aid)
       THEN /\ authors' = {IF a.id = aid THEN [a EXCEPT !.name = name] ELSE a : a \in authors}
            /\ last' = Call("UpdateAuthor", "ok", name, <<>>)
       ELSE /\ authors' = authors
            /\ last' = Call("UpdateAuthor", "IntegrityError:unique", name, <<>>)
    /\ UNCHANGED <<publishers, books, now, pop, createdCount>>

\* author.delete()
DeleteAuthor(aid) ==
    /\ Idle
    /\ aid \in Ids(authors)
    /\ authors' = {a \in authors : a.id # aid}
    /\ books' = books \ CascadeOfAuthor(aid)
    /\ last' = Call("DeleteAuthor", "ok", Cardinality(CascadeOfAuthor(aid)), <<>>)
    /\ UNCHANGED <<publishers, now, pop, createdCount>>

\* ------------------------------------------------------------ Publisher
\* Publisher.objects.create(name=...)
CreatePublisher(name) ==
    /\ Idle
    /\ IF PublisherNameUnique(name, 0)
       THEN /\ publishers' = publishers \cup {[id |-> FreshId(publishers), name |-> name]}
            /\ last' = Call("CreatePublisher", "ok", name, <<>>)
       ELSE /\ publishers' = publishers
            /\ last' = Call("CreatePublisher", "IntegrityError:unique", name, <<>>)
    /\ UNCHANGED <<authors, books, now, pop, createdCount>>

\* publisher.name = ...; publisher.save()
UpdatePublisher(pid, name) ==
    /\ Idle
    /\ pid \in Ids(publishers)
    /\ IF PublisherNameUnique(name, pid)
       THEN /\ publishers' = {IF p.id = pid THEN [p EXCEPT !.name = name] ELSE p : p \in publishers}
            /\ last' = Call("UpdatePublisher", "ok", name, <<>>)
       ELSE /\ publishers' = publishers
            /\ last' = Call("UpdatePublisher", "IntegrityError:unique", name, <<>>)
    /\ UNCHANGED <<authors, books, now, pop, createdCount>>

\* publisher.delete()
DeletePublisher(pid) ==
    /\ Idle
    /\ pid \in Ids(publishers)
    /\ publishers' = {p \in publishers : p.id # pid}
    /\ books' = books \ CascadeOfPublisher(pid)
    /\ last' = Call("DeletePublisher", "ok", Cardinality(CascadeOfPublisher(pid)), <<>>)
    /\ UNCHANGED <<authors, now, pop, createdCount>>

\* ----------------------------------------------------------------- Book
\* the row Book.objects.create(...) inserts
NewBook(title, isbn, author, publisher) ==
    [id |-> FreshId(books), title |-> title, isbn |-> isbn, author |-> author,
     publisher |-> publisher, created_at |-> CreatedAtOnAdd,
     updated_at |-> UpdatedAtOnSave]

\* a create that overwrites the stored row of the same isbn before it raises
CreateBookOverwriting(title, isbn, author, publisher) ==
    /\ Idle
    /\ LET res == BookWriteResult(title, isbn, author, publisher, 0) IN
       IF res = "ok"
       THEN /\ books' = books \cup {NewBook(title, isbn, author, publisher)}
            /\ last' = Call("CreateBook", "ok", isbn, <<>>)
       ELSE /\ books' = IF res = "IntegrityError:unique"
                        THEN {IF b.isbn = isbn
                              THEN [b EXCEPT !.title = title, !.author = author,
                                             !.publisher = publisher]
                              ELSE b : b \in books}
                        ELSE books
            /\ last' = Call("CreateBook", res, isbn, <<>>)
    /\ UNCHANGED <<authors, publishers, now, pop, createdCount>>

\* Book.objects.create(title=..., author=..., publisher=..., isbn=..., ...)
CreateBook(title, isbn, author, publisher) ==
    /\ Idle
    /\ LET res == BookWriteResult(title, isbn, author, publisher, 0) IN
       IF res = "ok"
       THEN /\ books' = books \cup {NewBook(title, isbn, author, publisher)}
            /\ last' = Call("CreateBook", "ok", isbn, <<>>)
       ELSE /\ books' = books
            /\ last' = Call("CreateBook", res, isbn, <<>>)
    /\ UNCHANGED <<authors, publishers, now, pop, createdCount>>

BookFields == {"title", "isbn", "author", "publisher"}

\* the values a caller may assign to a field of a Book
FieldValues(field) ==
    CASE field = "title" -> Titles
      [] field = "isbn" -> Isbns
      [] field = "author" -> AuthorRefs
      [] field = "publisher" -> PublisherRefs

\* book.<field> = value
Assigned(b, field, value) ==
    CASE field = "title" -> [b EXCEPT !.title = value]
      [] field = "isbn" -> [b EXCEPT !.isbn = value]
      [] field = "author" -> [b EXCEPT !.author = value]
      [] field = "publisher" -> [b EXCEPT !.publisher = value]

\* the row book.save() writes over a stored Book
SavedBook(b) ==
    [b EXCEPT !.created_at = CreatedAtOnUpdate(b), !.updated_at = UpdatedAtOnSave]

\* book.<field> = value; book.save()
UpdateBook(bid, field, value) ==
    /\ Idle
    /\ bid \in Ids(books)
    /\ LET old == CHOOSE b \in books : b.id = bid
           new == Assigned(old, field, value)
           res == BookWriteResult(new.title, new.isbn, new.author, new.publisher, bid)
       IN IF res = "ok"
          THEN /\ books' = (books \ {old}) \cup {SavedBook(new)}
               /\ last' = Call("UpdateBook", "ok", new.isbn, <<>>)
          ELSE /\ books' = books
               /\ last' = Call("UpdateBook", res, new.isbn, <<>>)
    /\ UNCHANGED <<authors, publishers, now, pop, createdCount>>

\* book.delete()
DeleteBook(bid) ==
    /\ Idle
    /\ bid \in Ids(books)
    /\ books' = {b \in books : b.id # bid}
    /\ last' = Call("DeleteBook", "ok", 1, <<>>)
    /\ UNCHANGED <<authors, publishers, now, pop, createdCount>>

\* list(Book.objects.all())
QueryBooks ==
    /\ Idle
    /\ \E rows \in OrderedBooks(books) : last' = Call("QueryBooks", "ok", 0, rows)
    /\ UNCHANGED <<authors, publishers, books, now, pop, createdCount>>

\* ------------------------------------------------- the test fixtures
\* setUp of the test cases: the three tables are emptied (Book first) and
\* engine._OBJECT_CREATED_COUNT is cleared
SetUp ==
    /\ Idle
    /\ books' = {}
    /\ authors' = {}
    /\ publishers' = {}
    /\ createdCount' = [m \in ModelNames |-> 0]
    /\ pop' = NotPopulating
    /\ last' = Call("setUp", "ok", 0, <<>>)
    /\ UNCHANGED now

\* ------------------------------------------------- the populate command
\* the models of the app in declaration order (models.py: Book first)
DeclarationOrder == <<"Book", "Author", "Publisher">>

\* the models of the app in foreign-key dependency order
PopulateOrder == <<"Author", "Publisher", "Book">>

\* the rows a table can hold in this model
Capacity(m) ==
    CASE m = "Author" -> MaxAuthorName
      [] m = "Publisher" -> MaxPublisherName
      [] m = "Book" -> MaxIsbn

\* foreign keys left unset
PickNone(table) == {NoRef}

\* a random instance for a foreign key: one of the stored rows, None when
\* the table is empty
PickRef(table) == IF table = {} THEN {NoRef} ELSE Ids(table)

\* the progress record after one more attempt on the current model
Attempted(made) ==
    IF pop.i + 1 < pop.num
    THEN [pop EXCEPT !.i = pop.i + 1, !.made = made]
    ELSE IF pop.k < Len(PopulateOrder)
    THEN [pop EXCEPT !.k = pop.k + 1, !.i = 0, !.made = made]
    ELSE [pop EXCEPT !.pc = "done", !.made = made]

Counted(f, m) == [f EXCEPT ![m] = f[m] + 1]

\* call_command("populate", "books", "--num", num)
PopulateStart(num) ==
    /\ Idle
    /\ \A m \in ModelNames : createdCount[m] + Capacity(m) <= MaxCreated
    /\ pop' = [pc |-> "run", k |-> 1, i |-> 0, num |-> num,
               fromEmpty |-> /\ authors = {} /\ publishers = {} /\ books = {}
                             /\ \A m \in ModelNames : createdCount[m] = 0,
               made |-> [m \in ModelNames |-> 0]]
    /\ last' = Call("populate", "started", 0, <<>>)
    /\ UNCHANGED <<authors, publishers, books, now, createdCount>>

\* one Author with random field values
PopulateAuthor ==
    /\ pop.pc = "run" /\ PopulateOrder[pop.k] = "Author"
    /\ \E n \in AuthorNames :
          IF AuthorNameUnique(n, 0)
          THEN /\ authors' = authors \cup {[id |-> FreshId(authors), name |-> n]}
               /\ createdCount' = Counted(createdCount, "Author")
               /\ pop' = Attempted(Counted(pop.made, "Author"))
               /\ last' = Call("populate:Author", "ok", n, <<>>)
          ELSE /\ UNCHANGED <<authors, createdCount>>
               /\ pop' = Attempted(pop.made)
               /\ last' = Call("populate:Author", "IntegrityError:unique", n, <<>>)
    /\ UNCHANGED <<publishers, books, now>>

\* one Publisher with random field values
PopulatePublisher ==
    /\ pop.pc = "run" /\ PopulateOrder[pop.k] = "Publisher"
    /\ \E n \in PublisherNames :
          IF PublisherNameUnique(n, 0)
          THEN /\ publishers' = publishers \cup {[id |-> FreshId(publishers), name |-> n]}
               /\ createdCount' = Counted(createdCount, "Publisher")
               /\ pop' = Attempted(Counted(pop.made, "Publisher"))
               /\ last' = Call("populate:Publisher", "ok", n, <<>>)
          ELSE /\ UNCHANGED <<publishers, createdCount>>
               /\ pop' = Attempted(pop.made)
               /\ last' = Call("populate:Publisher", "IntegrityError:unique", n, <<>>)
    /\ UNCHANGED <<authors, books, now>>

\* one Book with random field values and random stored parents
PopulateBook ==
    /\ pop.pc = "run" /\ PopulateOrder[pop.k] = "Book"
    /\ \E t \in Titles, i \in Isbns, a \in PickRef(authors), p \in PickRef(publishers) :
          LET res == BookWriteResult(t, i, a, p, 0) IN
          IF res = "ok"
          THEN /\ books' = books \cup {NewBook(t, i, a, p)}
               /\ createdCount' = Counted(createdCount, "Book")
               /\ pop' = Attempted(Counted(pop.made, "Book"))
               /\ last' = Call("populate:Book", "ok", i, <<>>)
          ELSE /\ UNCHANGED <<books, createdCount>>
               /\ pop' = Attempted(pop.made)
               /\ last' = Call("populate:Book", res, i, <<>>)
    /\ UNCHANGED <<authors, publishers, now>>

\* ------------------------------------------------------- specifications
\* the calls of the schema layer, the clock standing still
Next ==
    \/ \E n \in AuthorNames : CreateAuthor(n)
    \/ \E a \in AuthorIds, n \in AuthorNames : UpdateAuthor(a, n)
    \/ \E a \in AuthorIds : DeleteAuthor(a)
    \/ \E n \in PublisherNames : CreatePublisher(n)
    \/ \E p \in PublisherIds, n \in PublisherNames : UpdatePublisher(p, n)
    \/ \E p \in PublisherIds : DeletePublisher(p)
    \/ \E t \in Titles, i \in Isbns, a \in AuthorRefs, p \in PublisherRefs : CreateBook(t, i, a, p)
    \/ \E b \in BookIds, f \in BookFields : \E v \in FieldValues(f) : UpdateBook(b, f, v)
    \/ \E b \in BookIds : DeleteBook(b)

Spec == Init /\ [][Next]_vars

\* the life of Book rows under a running clock, from the fixture the tests
\* build first: one stored Author and one stored Publisher
InitClock ==
    /\ \E n \in AuthorNames : authors = {[id |-> 1, name |-> n]}
    /\ \E n \in PublisherNames : publishers = {[id |-> 1, name |-> n]}
    /\ books = {}
    /\ now = 0
    /\ last = NoCall
    /\ pop = NotPopulating
    /\ createdCount = [m \in ModelNames |-> 0]

NextClock ==
    \/ Tick
    \/ \E t \in Titles, i \in Isbns, a \in AuthorRefs, p \in PublisherRefs : CreateBook(t, i, a, p)
    \/ \E b \in BookIds, f \in BookFields : \E v \in FieldValues(f) : UpdateBook(b, f, v)
    \/ \E b \in BookIds : DeleteBook(b)
    \/ \E a \in AuthorIds : DeleteAuthor(a)
    \/ \E p \in PublisherIds : DeletePublisher(p)
    \/ QueryBooks

SpecClock == InitClock /\ [][NextClock]_vars

\* the populate command as the tests run it: setUp, runs of the command,
\* and deletions between two runs
NextPopulate ==
    \/ SetUp
    \/ \E num \in 1..NumArg : PopulateStart(num)
    \/ PopulateAuthor
    \/ PopulatePublisher
    \/ PopulateBook
    \/ \E a \in AuthorIds : DeleteAuthor(a)

SpecPopulate == Init /\ [][NextPopulate]_vars

\* ---------------------------------------------------------------- claims
IntegrityErrors == {"IntegrityError:notnull", "IntegrityError:fk", "IntegrityError:unique"}

\* C1: no two stored Books have the same isbn, and a Book.objects.create whose
\* isbn is that of a stored Book raises an integrity error, whatever the
\* other columns are.
IsbnGloballyUnique ==
    /\ [](\A b1, b2 \in books : b1.isbn = b2.isbn => b1 = b2)
    /\ [][(last'.op = "CreateBook" /\ \E b \in books : b.isbn = last'.key)
            => last'.result \in IntegrityErrors]_vars

DuplicateIsbnRejected ==
    /\ last.op = "CreateBook"
    /\ last.result = "IntegrityError:unique"
    /\ \E b \in books : b.isbn = last.key

\* C2: no two Authors share a name and no two Publishers share a name; a
\* create is rejected with an integrity error exactly when a row of the same
\* table has the name, so an Author and a Publisher may share one.
NamesUniquePerTable ==
    /\ [](/\ \A a1, a2 \in authors : a1.name = a2.name => a1 = a2
          /\ \A p1, p2 \in publishers : p1.name = p2.name => p1 = p2)
    /\ [][/\ last'.op = "CreateAuthor" =>
               (last'.result = "IntegrityError:unique" <=> \E a \in authors : a.name = last'.key)
          /\ last'.op = "CreatePublisher" =>
               (last'.result = "IntegrityError:unique" <=> \E p \in publishers : p.name = last'.key)
         ]_vars

DuplicateAuthorNameRejected ==
    /\ last.op = "CreateAuthor"
    /\ last.result = "IntegrityError:unique"
    /\ \E a \in authors : a.name = last.key
    /\ \E a \in authors, p \in publishers : a.name = p.name

\* C3: every stored Book references a stored Author and a stored Publisher,
\* and a delete of a parent leaves no Book that referenced it.
NoDanglingReference ==
    /\ [](\A b \in books : /\ \E a \in authors : a.id = b.author
                           /\ \E p \in publishers : p.id = b.publisher)
    /\ [][/\ last'.op = "DeleteAuthor" =>
               \A a \in authors \ authors' : \A b \in books' : b.author # a.id
          /\ last'.op = "DeletePublisher" =>
               \A p \in publishers \ publishers' : \A b \in books' : b.publisher # p.id
         ]_vars

AuthorDeletedWithBooks ==
    /\ last.op = "DeleteAuthor"
    /\ last.key >= 1
    /\ books # {}

\* C4: a Book.objects.create with a stored Author, a stored Publisher and an
\* isbn not in use succeeds, the new row is in author.books and in
\* publisher.books, and the books set of every parent is exactly the stored
\* Books that reference it.
BookReachableFromParents ==
    /\ [](/\ \A a \in authors : AuthorBooks(a.id) = {b \in books : b.author = a.id}
          /\ \A p \in publishers : PublisherBooks(p.id) = {b \in books : b.publisher = p.id})
    /\ [][\A t \in Titles, i \in Isbns, a \in AuthorIds, p \in PublisherIds :
            ( /\ last'.op = "CreateBook" /\ last'.key = i
              /\ \E x \in authors : x.id = a
              /\ \E x \in publishers : x.id = p
              /\ \A b \in books : b.isbn # i
              /\ CreateBook(t, i, a, p) )
            => /\ last'.result = "ok"
               /\ \E b \in books' \ books :
                    /\ b.title = t /\ b.isbn = i /\ b.author = a /\ b.publisher = p
                    /\ b \in AuthorBooks(a)'
                    /\ b \in PublisherBooks(p)'
         ]_vars

BookCreatedUnderParents ==
    /\ last.op = "CreateBook"
    /\ last.result = "ok"
    /\ \E b \in books : /\ b.isbn = last.key
                        /\ b \in AuthorBooks(b.author)
                        /\ b \in PublisherBooks(b.publisher)
                        /\ Cardinality(AuthorBooks(b.author)) = 2

\* C5 as stated: a Book.objects.create without an author or without a
\* publisher raises a validation error and stores no Book.
MissingReferenceIsValidationError ==
    [][\A t \in Titles, i \in Isbns, a \in AuthorRefs, p \in PublisherRefs :
          ( /\ last'.op = "CreateBook" /\ last'.key = i
            /\ (a = NoRef \/ p = NoRef)
            /\ CreateBook(t, i, a, p) )
          => (last'.result = "ValidationError" /\ books' = books)]_vars

\* C5 amended: a Book.objects.create without an author or without a
\* publisher fails with the integrity error of the NOT NULL column, raised by
\* the storage layer when the row is inserted, and stores no Book.
MissingReferenceIsIntegrityError ==
    [][\A t \in Titles, i \in Isbns, a \in AuthorRefs, p \in PublisherRefs :
          ( /\ last'.op = "CreateBook" /\ last'.key = i
            /\ (a = NoRef \/ p = NoRef)
            /\ CreateBook(t, i, a, p) )
          => (last'.result = "IntegrityError:notnull" /\ books' = books)]_vars

MissingReferenceRejected ==
    /\ last.op = "CreateBook"
    /\ last.result = "IntegrityError:notnull"
    /\ authors # {}

\* C6: an unfiltered query returns every stored Book once, in order of
\* decreasing created_at; a new Book is never older than a stored one; a save
\* of a stored Book sets its updated_at to the clock and leaves the
\* created_at of every Book, hence the order, as it was.
NewestCreatedFirst ==
    /\ [](last.op = "QueryBooks" =>
            /\ Len(last.rows) = Cardinality(books)
            /\ {last.rows[i] : i \in 1..Len(last.rows)} = books
            /\ \A i, j \in 1..Len(last.rows) :
                   i < j => last.rows[i].created_at >= last.rows[j].created_at)
    /\ [][/\ (last'.op = "CreateBook" /\ last'.result = "ok") =>
               \A n \in books' \ books :
                   n.created_at = now /\ \A b \in books : b.created_at <= n.created_at
          /\ (last'.op = "UpdateBook" /\ last'.result = "ok") =>
               /\ \A b \in books : \E n \in books' : n.id = b.id /\ n.created_at = b.created_at
               /\ \A n \in books' \ books : n.updated_at = now
         ]_vars

OlderBookUpdatedStaysBehind ==
    /\ last.op = "QueryBooks"
    /\ Len(last.rows) = 2
    /\ last.rows[1].created_at > last.rows[2].created_at
    /\ last.rows[2].updated_at > last.rows[1].created_at

\* C7: a run of populate with --num 5 that started on empty tables and a
\* cleared counter ends with at least one Author, one Publisher and one
\* Book stored; every step of a run advances it.
PopulateFillsAllTables ==
    /\ []((/\ pop.pc = "done" /\ pop.fromEmpty /\ pop.num = NumArg
           /\ last.op = "populate:Book")
          => (Cardinality(authors) > 0 /\ Cardinality(publishers) > 0
              /\ Cardinality(books) > 0))
    /\ [][pop.pc = "run" =>
            \/ pop'.pc = "done"
            \/ pop'.pc = "run" /\ pop'.k > pop.k
            \/ pop'.pc = "run" /\ pop'.k = pop.k /\ pop'.i > pop.i]_vars

PopulateFromEmptyDone ==
    /\ pop.pc = "done" /\ pop.fromEmpty /\ pop.num = NumArg
    /\ last.op = "populate:Book"
    /\ createdCount["Book"] >= 1

\* C8: within a run of populate a Book is created only while Authors and
\* Publishers are stored, it references stored rows, and no Author or
\* Publisher is created once the run has created a Book.
ParentsBeforeBooks ==
    [][pop.pc = "run" =>
         /\ (books' # books) =>
               /\ authors # {} /\ publishers # {}
               /\ \A b \in books' \ books :
                     /\ \E a \in authors : a.id = b.author
                     /\ \E p \in publishers : p.id = b.publisher
         /\ (authors' # authors \/ publishers' # publishers) => pop.made["Book"] = 0
      ]_vars

PopulateCreatedBook ==
    /\ last.op = "populate:Book"
    /\ last.result = "ok"
    /\ pop.made["Author"] >= 1
    /\ pop.made["Publisher"] >= 1

\* C9: a delete of an Author removes that Author and the Books referencing
\* it and nothing else; a delete of a Publisher likewise.
DeleteTouchesOnlyDependents ==
    [][/\ last'.op = "DeleteAuthor" =>
            /\ publishers' = publishers
            /\ \E a \in authors : /\ authors' = authors \ {a}
                                  /\ books' = {b \in books : b.author # a.id}
       /\ last'.op = "DeletePublisher" =>
            /\ authors' = authors
            /\ \E p \in publishers : /\ publishers' = publishers \ {p}
                                     /\ books' = {b \in books : b.publisher # p.id}
      ]_vars

PublisherDeletedOthersKept ==
    /\ last.op = "DeletePublisher"
    /\ last.key >= 1
    /\ books # {}
    /\ publishers # {}

\* C10: a create rejected by a uniqueness constraint leaves the three tables
\* as they were.
RejectedCreateChangesNothing ==
    [][(/\ last'.op \in {"CreateBook", "CreateAuthor", "CreatePublisher"}
        /\ last'.result = "IntegrityError:unique")
       => (authors' = authors /\ publishers' = publishers /\ books' = books)]_vars

RejectedCreateOnFilledTables ==
    /\ last.op = "CreateBook"
    /\ last.result = "IntegrityError:unique"
    /\ Cardinality(authors) = 2
    /\ \E b \in books : b.isbn = last.key /\ b.author = 1
====
